---- MODULE Spec2Model ----
(***************************************************************************)
(* Model of consumer/consumer.py: the log-line parser (log_pattern,        *)
(* parse_log) and the ingestion loop (consume_logs) that moves messages    *)
(* from a Kafka topic into the PostgreSQL table "logs".                     *)
(*                                                                         *)
(* A line is a sequence of symbols.  A symbol is a string: a single        *)
(* character ("2", "-", " ", "|") or an atom standing for a run of          *)
(* characters none of which is whitespace or '|' ("user_id=", "alice").    *)
(* A character class matches an atom when it matches all its characters.   *)
(***************************************************************************)
EXTENDS Integers, Sequences, FiniteSets, TLC

(***************************************************************************)
(* Bounds                                                                  *)
(***************************************************************************)
MaxEmpty == 2      \* at most this many fields of a generated line are empty
MaxMsgs == 2       \* messages in the topic
MaxRuns == 2       \* process runs (first start plus restarts)

\* Python values: None is the empty tuple, a str is the 1-tuple of its
\* symbol sequence, so that None, "" and every other str are distinct
None == <<>>
Str(syms) == <<syms>>
EmptyStr == Str(<<>>)

(***************************************************************************)
(* Character classes of log_pattern                                        *)
(***************************************************************************)
Digit == {"0", "1", "2", "3", "4", "5", "6", "7", "8", "9"}
Whitespace == {" ", "\t"}
UpperSyms == {"A", "C", "T", "_", "LOGIN", "PAGE_VIEW"}

InClass(c, s) ==
    CASE c = "d" -> s \in Digit
      [] c = "AZ_" -> s \in UpperSyms
      [] c = "sign" -> s \in {"+", "-"}
      [] c = "notspace" -> s \notin Whitespace
      [] c = "notpipe" -> s # "|"
      [] c = "notpipespace" -> s # "|" /\ s \notin Whitespace
      [] OTHER -> FALSE

(***************************************************************************)
(* Regex elements                                                          *)
(***************************************************************************)
Lit(s) == [k |-> "lit", c |-> s, n |-> 1]
One(c) == [k |-> "one", c |-> c, n |-> 1]
Greedy(c, n) == [k |-> "greedy", c |-> c, n |-> n]
\* mutant: the lazy captures exclude whitespace as the greedy ones do
Lazy_NoSpaces(c, n) == [k |-> "lazy", c |-> "notpipespace", n |-> n]
Lazy(c, n) == [k |-> "lazy", c |-> c, n |-> n]
Open(g) == [k |-> "open", c |-> g, n |-> 0]
Close(g) == [k |-> "close", c |-> g, n |-> 0]

RECURSIVE Rep(_, _)
Rep(e, n) == IF n = 0 THEN <<>> ELSE <<e>> \o Rep(e, n - 1)

Sep == <<Lit(" "), Lit("|"), Lit(" ")>>                        \* " \| "
Group(g, body) == <<Open(g)>> \o body \o <<Close(g)>>          \* (?P<g>body)
KeyVal(g, body) == <<Lit(g \o "=")>> \o Group(g, body)         \* g=(?P<g>body)

FieldNames ==
    <<"timestamp", "log_id", "event_type", "user_id", "username", "ip_address",
      "country", "region", "city", "coordinates", "os", "browser",
      "device_type", "action", "status", "session_id", "request_id",
      "trace_id">>

TimestampRe ==
    Rep(One("d"), 4) \o <<Lit("-")>> \o Rep(One("d"), 2) \o <<Lit("-")>>
    \o Rep(One("d"), 2) \o <<Lit("T")>> \o Rep(One("d"), 2) \o <<Lit(":")>>
    \o Rep(One("d"), 2) \o <<Lit(":")>> \o Rep(One("d"), 2) \o <<Lit(".")>>
    \o <<Greedy("d", 1), One("sign")>> \o Rep(One("d"), 2) \o <<Lit(":")>>
    \o Rep(One("d"), 2)

LogIdRe ==
    <<Lit("A"), Lit("C"), Lit("T"), Lit("-")>> \o Rep(One("d"), 8)
    \o <<Lit("T")>> \o Rep(One("d"), 6) \o <<Lit("-"), Greedy("d", 1)>>

UserIdRe == <<Greedy("notspace", 1)>>

log_pattern ==
    Group("timestamp", TimestampRe) \o Sep
    \o Group("log_id", LogIdRe) \o Sep
    \o Group("event_type", <<Greedy("AZ_", 1)>>) \o Sep
    \o KeyVal("user_id", UserIdRe) \o <<Lit(" ")>>
    \o KeyVal("username", <<Lazy("notpipe", 0)>>) \o <<Lit(" ")>>
    \o KeyVal("ip_address", <<Greedy("notspace", 1)>>) \o <<Lit(" ")>>
    \o KeyVal("country", <<Lazy("notpipe", 0)>>) \o <<Lit(" ")>>
    \o KeyVal("region", <<Lazy("notpipe", 0)>>) \o <<Lit(" ")>>
    \o KeyVal("city", <<Lazy("notpipe", 0)>>) \o <<Lit(" ")>>
    \o KeyVal("coordinates", <<Lazy("notpipe", 0)>>) \o <<Lit(" ")>>
    \o KeyVal("os", <<Lazy("notpipe", 0)>>) \o <<Lit(" ")>>
    \o KeyVal("browser", <<Lazy("notpipe", 0)>>) \o <<Lit(" ")>>
    \o KeyVal("device_type", <<Lazy("notpipe", 0)>>) \o Sep
    \o KeyVal("action", <<Greedy("notpipespace", 0)>>) \o <<Lit(" ")>>
    \o KeyVal("status", <<Greedy("notpipespace", 0)>>) \o Sep
    \o KeyVal("session_id", <<Greedy("notpipespace", 0)>>) \o <<Lit(" ")>>
    \o KeyVal("request_id", <<Greedy("notpipespace", 0)>>) \o <<Lit(" ")>>
    \o KeyVal("trace_id", <<Greedy("notpipespace", 0)>>)

(***************************************************************************)
(* Matcher with the priorities of Python's re: the match found is the      *)
(* first in backtracking order, where a greedy quantifier tries the        *)
(* longest repetition first and a lazy one the shortest.  The pattern is   *)
(* matched in chunks of four quantifiers: Ways lists every way a chunk     *)
(* can match from a position, BestFrom takes the preferred way after       *)
(* which the rest of the pattern still matches.                            *)
(***************************************************************************)
NoMatch == [ok |-> FALSE, counts |-> <<>>]

\* number of consecutive symbols of class c from position i on
RunLen(line, c, i) ==
    LET stops == {j \in i..Len(line) : ~InClass(c, line[j])}
    IN IF stops = {} THEN Len(line) + 1 - i
       ELSE (CHOOSE j \in stops : \A r \in stops : j <= r) - i

IsUnit(e) == e.k \in {"lit", "one"}
IsQuant(e) == e.k \in {"greedy", "lazy"}

\* does element e accept the symbol at position i
UnitOk(e, line, i) ==
    /\ i <= Len(line)
    /\ IF e.k = "lit" THEN line[i] = e.c ELSE InClass(e.c, line[i])

\* index of the first quantified element in p..stop-1 (stop if none)
BlockEnd(pat, p, stop) ==
    LET qs == {q \in p..(stop - 1) : IsQuant(pat[q])}
    IN IF qs = {} THEN stop ELSE CHOOSE q \in qs : \A r \in qs : q <= r

\* number of symbols the elements pat[p..j-1] consume, none of them quantified
Units(pat, p, j) == Cardinality({m \in p..(j - 1) : IsUnit(pat[m])})

\* every way pat[p..stop-1] matches line from position i on, as
\* <<repetition counts of its quantifiers, position after the match>>:
\* the elements up to the next quantifier consume one symbol each (group
\* marks consume none), the quantifier repeats lo..run times
RECURSIVE Ways(_, _, _, _, _)
Ways(pat, line, p, i, stop) ==
    LET q == BlockEnd(pat, p, stop)
    IN IF \E j \in p..(q - 1) :
            IsUnit(pat[j]) /\ ~UnitOk(pat[j], line, i + Units(pat, p, j))
       THEN {}
       ELSE IF q = stop
       THEN {<< <<>>, i + Units(pat, p, q) >>}
       ELSE UNION {{<< <<k>> \o w[1], w[2] >> :
                       w \in Ways(pat, line, q + 1, i + Units(pat, p, q) + k, stop)} :
                   k \in pat[q].n..RunLen(line, pat[q].c, i + Units(pat, p, q))}

\* indices of the quantifiers of pat, and the n-th of them
Quants(pat) == {q \in 1..Len(pat) : IsQuant(pat[q])}
NthQuant(pat, n) ==
    LET qs == Quants(pat)
    IN CHOOSE q \in qs : Cardinality({r \in qs : r <= q}) = n

\* chunk c starts at quantifier 4(c-1)+1 (chunk 1 at the first element)
ChunkStart(pat, c) ==
    IF c = 1 THEN 1
    ELSE IF 4 * (c - 1) + 1 > Cardinality(Quants(pat)) THEN Len(pat) + 1
    ELSE NthQuant(pat, 4 * (c - 1) + 1)

\* backtracking tries counts a before counts b: at the first quantifier
\* where they differ, a repeats more if it is greedy, less if it is lazy
Prefers(pat, first, a, b) ==
    \/ a = b
    \/ \E n \in 1..Len(a) :
          /\ \A m \in 1..(n - 1) : a[m] = b[m]
          /\ IF pat[NthQuant(pat, first + n)].k = "greedy"
             THEN a[n] > b[n] ELSE a[n] < b[n]

\* the match of chunks c, c+1, ... from position i that backtracking finds
RECURSIVE BestFrom(_, _, _, _)
BestFrom(pat, line, c, i) ==
    IF ChunkStart(pat, c) > Len(pat)
    THEN [ok |-> TRUE, counts |-> <<>>]
    ELSE LET tries == {<<w[1], BestFrom(pat, line, c + 1, w[2])>> :
                         w \in Ways(pat, line, ChunkStart(pat, c), i,
                                    ChunkStart(pat, c + 1))}
             good == {t \in tries : t[2].ok}
             best == CHOOSE t \in good :
                        \A u \in good : Prefers(pat, 4 * (c - 1), t[1], u[1])
         IN IF good = {} THEN NoMatch
            ELSE [ok |-> TRUE, counts |-> best[1] \o best[2].counts]

\* log_pattern.match(s): anchored at position 0, not at the end of the line
PatternMatch(pat, line) == BestFrom(pat, line, 1, 1)

\* number of symbols pat[1..j-1] consumed in match m
Consumed(pat, m, j) ==
    LET before == Cardinality({q \in Quants(pat) : q < j})
    IN Units(pat, 1, j)
       + Cardinality(UNION {{<<n, x>> : x \in 1..m.counts[n]} : n \in 1..before})

\* match.group(g)
MatchGroup(pat, line, m, g) ==
    LET open == CHOOSE j \in 1..Len(pat) : pat[j] = Open(g)
        close == CHOOSE j \in 1..Len(pat) : pat[j] = Close(g)
    IN Str(SubSeq(line, 1 + Consumed(pat, m, open), Consumed(pat, m, close)))

\* mutant: the empty capture is passed through
replace_empty_with_none_Identity(value) == value

\* value if value else None
replace_empty_with_none(value) == IF value # EmptyStr THEN value ELSE None

\* the fields parse_log returns as captured (lines 126-128)
RawFields == {"timestamp", "log_id", "event_type"}

parse_log(log_message) ==
    LET m == PatternMatch(log_pattern, log_message) IN
    IF m.ok
    THEN [f \in 1..Len(FieldNames) |->
            IF FieldNames[f] \in RawFields
            THEN MatchGroup(log_pattern, log_message, m, FieldNames[f])
            ELSE replace_empty_with_none(MatchGroup(log_pattern, log_message, m, FieldNames[f]))]
    ELSE None

(***************************************************************************)
(* Input lines.  A line is laid out as the pieces                          *)
(*   ts | log_id | event_type | user_id=.. .. device_type=.. |             *)
(*   action=.. status=.. | session_id=.. request_id=.. trace_id=..         *)
(* that log_pattern describes; a deviation damages one place of it.        *)
(***************************************************************************)
Chars_ts == <<"2", "0", "2", "4", "-", "0", "3", "-", "0", "1", "T",
              "1", "0", ":", "0", "0", ":", "0", "0", ".", "0", "0", "0",
              "+", "0", "0", ":", "0", "0">>
Chars_log_id == <<"A", "C", "T", "-", "2", "0", "2", "4", "0", "3", "0", "1",
                  "T", "1", "0", "0", "0", "0", "0", "-", "1">>

\* fields whose pattern is [^|]*?: their values may contain spaces
SpaceFields == {"username", "country", "region", "city", "coordinates", "os",
                "browser", "device_type"}

\* values with spaces in every field that admits them (variant 3)
SpacedValue(f) ==
    CASE f = "username" -> <<" ", "al", " ", "ice">>
      [] f = "country" -> <<"United", " ", "States">>
      [] f = "region" -> <<"New", " ", "York">>
      [] f = "city" -> <<"New", " ", "York", " ", "City">>
      [] f = "coordinates" -> <<"40.7,", " ", "-74.0">>
      [] f = "os" -> <<"Mac", " ", "OS">>
      [] f = "browser" -> <<"Google", " ", "Chrome">>
      [] f = "device_type" -> <<"smart", " ", "phone", " ">>

\* a value of os that contains the key of the field after it (variant 4)
AmbiguousVariant == 4
AmbiguousValue == <<"x", " ", "browser=", "y">>

\* value of each field when it is not empty; variant 2 differs from variant
\* 1, variant 3 has spaces wherever they are allowed, variant 4 is ambiguous
FullValue(f, variant) ==
    CASE variant = 3 /\ f \in SpaceFields -> SpacedValue(f)
      [] variant = AmbiguousVariant /\ f = "os" -> AmbiguousValue
      [] f = "timestamp" -> Chars_ts
      [] f = "log_id" -> IF variant = 1 THEN Chars_log_id
                         ELSE SubSeq(Chars_log_id, 1, 20) \o <<"2">>
      [] f = "event_type" -> IF variant = 1 THEN <<"LOGIN">> ELSE <<"PAGE_VIEW">>
      [] f = "user_id" -> <<"u1">>
      [] f = "username" -> IF variant = 1 THEN <<"alice">> ELSE <<"al", " ", "ice">>
      [] f = "ip_address" -> <<"1.2.3.4">>
      [] f = "country" -> <<"US">>
      [] f = "region" -> <<"NY">>
      [] f = "city" -> IF variant = 1 THEN <<"Albany">> ELSE <<"New", " ", "York">>
      [] f = "coordinates" -> <<"40.7,-74.0">>
      [] f = "os" -> <<"Linux">>
      [] f = "browser" -> <<"Chrome">>
      [] f = "device_type" -> <<"desktop">>
      [] f = "action" -> <<"login">>
      [] f = "status" -> <<"success">>
      [] f = "session_id" -> <<"s1">>
      [] f = "request_id" -> <<"r1">>
      [] f = "trace_id" -> <<"t1">>

\* fields written key=value (all but the first three)
KeyedFields == {FieldNames[i] : i \in 4..18}
\* the fields the record may hold as None according to the data model
NormalizedFields == KeyedFields \ {"ip_address"}

Values(empty, variant) ==
    [f \in {FieldNames[i] : i \in 1..18} |->
        IF f \in empty THEN <<>> ELSE FullValue(f, variant)]

SepSyms == <<" ", "|", " ">>
FieldPiece(vals, i) ==
    IF i <= 3 THEN vals[FieldNames[i]]
    ELSE <<FieldNames[i] \o "=">> \o vals[FieldNames[i]]
\* the separator written after field i
Joint(i) == IF i \in {1, 2, 3, 13, 15} THEN SepSyms
            ELSE IF i = 18 THEN <<>> ELSE <<" ">>

\* pieces 2i-1 are the fields, pieces 2i the separators after them
Pieces(vals) ==
    [j \in 1..36 |-> IF j % 2 = 1 THEN FieldPiece(vals, (j + 1) \div 2)
                     ELSE Joint(j \div 2)]

\* the pieces written one after the other
Flatten(ps) ==
    ps[1] \o ps[2] \o ps[3] \o ps[4] \o ps[5] \o ps[6] \o ps[7] \o ps[8]
    \o ps[9] \o ps[10] \o ps[11] \o ps[12] \o ps[13] \o ps[14] \o ps[15]
    \o ps[16] \o ps[17] \o ps[18] \o ps[19] \o ps[20] \o ps[21] \o ps[22]
    \o ps[23] \o ps[24] \o ps[25] \o ps[26] \o ps[27] \o ps[28] \o ps[29]
    \o ps[30] \o ps[31] \o ps[32] \o ps[33] \o ps[34] \o ps[35] \o ps[36]

BadTimestamps ==
    << SubSeq(Chars_ts, 1, 10) \o <<" ">> \o SubSeq(Chars_ts, 12, 29),  \* no T
       SubSeq(Chars_ts, 1, 19) \o SubSeq(Chars_ts, 24, 29),     \* no fraction
       SubSeq(Chars_ts, 1, 23),                                 \* no offset
       <<"x">> \o SubSeq(Chars_ts, 2, 29),                      \* non-digit
       SubSeq(Chars_ts, 2, 29) >>                               \* 3-digit year

Deviations ==
    {<<"none", 0>>}
    \cup {<<"no_separator", i>> : i \in {1, 2, 3, 13, 15}}
    \cup {<<"no_pipe", i>> : i \in {1, 2, 3, 13, 15}}
    \cup {<<"no_field", i>> : i \in 1..18}
    \cup {<<"swapped", i>> : i \in 1..17}
    \cup {<<"extra", i>> : i \in 1..3}
    \cup {<<"bad_timestamp", i>> : i \in 1..Len(BadTimestamps)}
    \cup {<<"leading", 0>>}

Extras == << <<" ", "extra">>, <<" ", "|", " ", "extra=", "x">>, <<"x">> >>

Deviate(ps, d) ==
    CASE d[1] = "none" -> ps
      [] d[1] = "no_separator" -> [ps EXCEPT ![2 * d[2]] = <<>>]
      [] d[1] = "no_pipe" -> [ps EXCEPT ![2 * d[2]] = <<" ">>]
      [] d[1] = "no_field" ->
            IF d[2] = 18 THEN [ps EXCEPT ![35] = <<>>, ![34] = <<>>]
            ELSE [ps EXCEPT ![2 * d[2] - 1] = <<>>, ![2 * d[2]] = <<>>]
      [] d[1] = "swapped" ->
            [ps EXCEPT ![2 * d[2] - 1] = ps[2 * d[2] + 1],
                       ![2 * d[2] + 1] = ps[2 * d[2] - 1]]
      [] d[1] = "extra" -> [ps EXCEPT ![36] = Extras[d[2]]]
      [] d[1] = "bad_timestamp" -> [ps EXCEPT ![1] = BadTimestamps[d[2]]]
      [] d[1] = "leading" -> [ps EXCEPT ![1] = <<" ">> \o ps[1]]

BuildLine(empty, variant, d) == Flatten(Deviate(Pieces(Values(empty, variant)), d))

EmptySets == {e \in SUBSET KeyedFields : Cardinality(e) <= MaxEmpty}

(***************************************************************************)
(* State                                                                   *)
(***************************************************************************)
VARIABLES
    pc,             \* position of the process in consume_logs
    run,            \* number of the current process run (1 = first start)
    topic,          \* the messages of the Kafka topic, offset o at topic[o + 1]
    position,       \* consumer's fetch position: offset of the next message
    stored_offset,  \* offset the client holds for the next offset commit
    committed,      \* offset committed for the consumer group at the broker
    conn,           \* PostgreSQL connection: "none", "open", "closed"
    consumer,       \* Kafka consumer: "none", "open", "closed"
    table_exists,   \* the table logs exists
    table,          \* committed rows of logs
    txn,            \* rows executed in the open transaction, not yet committed
    next_id,        \* next value of the SERIAL sequence of logs.id
    msg,            \* message the current iteration holds (None if none)
    log_message,    \* decoded payload
    log_data,       \* result of parse_log
    exc,            \* exception that ended the loop ("none" if none)
    exit_code,      \* exit status of the process (None while it runs)
    diag,           \* diagnostics emitted by the last step: <<level, function>>
    polled,         \* outcome of the last poll of the run ("-" before it)
    events,         \* history of the run: what happened to which offset
    parse_table,    \* what parse_log returned, by name of the payload
    input,          \* parser check: how the line was built
    line,           \* parser check: argument of parse_log
    result,         \* parser check: what parse_log returned
    called          \* parser check: parse_log has returned

loopVars == <<pc, run, topic, position, stored_offset, committed, conn,
              consumer, table_exists, table, txn, next_id, msg, log_message,
              log_data, exc, exit_code, diag, polled, events>>
parseVars == <<input, line, result, called, parse_table>>
vars == <<loopVars, parseVars>>

(***************************************************************************)
(* Parser check: parse_log applied to generated lines                      *)
(***************************************************************************)
NoDeviation == <<"none", 0>>
ParseInputs ==
    {[empty |-> e, variant |-> v, dev |-> NoDeviation] :
        e \in EmptySets, v \in 1..2}
    \cup {[empty |-> {}, variant |-> v, dev |-> NoDeviation] : v \in 3..4}
    \cup {[empty |-> {}, variant |-> v, dev |-> d] : v \in 1..2, d \in Deviations}

LoopIdle ==
    /\ pc = "idle" /\ run = 0 /\ topic = <<>> /\ position = 0
    /\ stored_offset = 0 /\ committed = 0 /\ conn = "none"
    /\ consumer = "none" /\ table_exists = FALSE /\ table = <<>>
    /\ txn = <<>> /\ next_id = 1 /\ msg = None /\ log_message = None
    /\ log_data = None /\ exc = "none" /\ exit_code = None /\ diag = <<>>
    /\ events = <<>> /\ polled = "-"

ParseInit ==
    /\ LoopIdle
    /\ input \in ParseInputs
    /\ line = BuildLine(input.empty, input.variant, input.dev)
    /\ result = None
    /\ called = FALSE
    /\ parse_table = <<>>

ParseLogCall ==
    /\ ~called
    /\ result' = parse_log(line)
    /\ called' = TRUE
    /\ diag' = IF result' = None THEN <<<<"WARNING", "parse_log">>>> ELSE <<>>
    /\ UNCHANGED <<input, line, parse_table, pc, run, topic, position, stored_offset,
                   committed, conn, consumer, table_exists, table, txn,
                   next_id, msg, log_message, log_data, exc, exit_code,
                   polled, events>>

ParseNext == ParseLogCall
ParseSpec == ParseInit /\ [][ParseNext]_vars

(***************************************************************************)
(* The ingestion process: consume_logs and the functions it calls.         *)
(* The interrupt (SIGINT) is delivered while the try block of lines        *)
(* 171-191 executes; close() of the consumer and of the connection return  *)
(* normally.                                                               *)
(***************************************************************************)
LineA == BuildLine({}, 1, NoDeviation)
LineB == BuildLine({"region"}, 2, NoDeviation)
LineBad == BuildLine({}, 1, <<"no_pipe", 3>>)

\* the topic holds messages by name; Payload is msg.value(): text bytes, no
\* value at all, or bytes that are not UTF-8
PayloadNames == {"A", "B", "Bad", "null", "binary"}
Payload(name) ==
    CASE name = "A" -> [kind |-> "text", value |-> LineA]
      [] name = "B" -> [kind |-> "text", value |-> LineB]
      [] name = "Bad" -> [kind |-> "text", value |-> LineBad]
      [] name = "null" -> [kind |-> "null", value |-> <<>>]
      [] name = "binary" -> [kind |-> "binary", value |-> <<>>]

StartupErrors == {"ConnectError", "SchemaError", "ConsumerError"}
TryPcs == {"poll", "decode", "parse", "execute", "commit"}

Event(kind, off) == <<kind, off>>
HasEvent(kind) == \E k \in 1..Len(events) : events[k][1] = kind

Init ==
    /\ pc = "connect" /\ run = 1
    /\ topic \in [1..MaxMsgs -> PayloadNames]
    /\ position = 0 /\ stored_offset = 0 /\ committed = 0
    /\ conn = "none" /\ consumer = "none"
    /\ table_exists = FALSE /\ table = <<>> /\ txn = <<>> /\ next_id = 1
    /\ msg = None /\ log_message = None /\ log_data = None
    /\ exc = "none" /\ exit_code = None /\ diag = <<>>
    /\ polled = "-" /\ events = <<>>
    /\ input = [empty |-> {}, variant |-> 1, dev |-> NoDeviation]
    /\ line = <<>> /\ result = None /\ called = FALSE
    /\ parse_table = <<>>

\* mutant: the startup failure is logged and consume_logs goes on
AbortStartup_Continues(e) ==
    /\ exc' = e
    /\ pc' = "create_consumer"
    /\ exit_code' = exit_code

\* an exception leaves consume_logs before the try block: nothing is closed
AbortStartup(e) ==
    /\ exc' = e
    /\ pc' = "exited"
    /\ exit_code' = 1

\* create_postgres_connection() returns a connection
ConnectOk ==
    /\ pc = "connect"
    /\ conn' = "open"
    /\ pc' = "create_table"
    /\ diag' = <<<<"INFO", "create_postgres_connection">>>>
    /\ UNCHANGED <<run, topic, position, stored_offset, committed, consumer,
                   table_exists, table, txn, next_id, msg, log_message,
                   log_data, exc, exit_code, polled, events, parseVars>>

\* psycopg2.connect raises
ConnectFails ==
    /\ pc = "connect"
    /\ AbortStartup("ConnectError")
    /\ diag' = <<<<"ERROR", "create_postgres_connection">>>>
    /\ UNCHANGED <<run, topic, position, stored_offset, committed, conn,
                   consumer, table_exists, table, txn, next_id, msg,
                   log_message, log_data, polled, events, parseVars>>

\* mutant: CREATE TABLE without IF NOT EXISTS is an error when logs exists
CreateTableOk_NoIfNotExists ==
    /\ pc = "create_table"
    /\ ~table_exists
    /\ table_exists' = TRUE
    /\ pc' = "create_consumer"
    /\ diag' = <<<<"INFO", "create_log_table">>>>
    /\ UNCHANGED <<run, topic, position, stored_offset, committed, conn,
                   consumer, table, txn, next_id, msg, log_message, log_data,
                   exc, exit_code, polled, events, parseVars>>

\* CREATE TABLE IF NOT EXISTS logs; commit
CreateTableOk ==
    /\ pc = "create_table"
    /\ table_exists' = TRUE
    /\ pc' = "create_consumer"
    /\ diag' = <<<<"INFO", "create_log_table">>>>
    /\ UNCHANGED <<run, topic, position, stored_offset, committed, conn,
                   consumer, table, txn, next_id, msg, log_message, log_data,
                   exc, exit_code, polled, events, parseVars>>

CreateTableFails ==
    /\ pc = "create_table"
    /\ AbortStartup("SchemaError")
    /\ diag' = <<<<"ERROR", "create_log_table">>>>
    /\ UNCHANGED <<run, topic, position, stored_offset, committed, conn,
                   consumer, table_exists, table, txn, next_id, msg,
                   log_message, log_data, polled, events, parseVars>>

\* Consumer(...) and subscribe: the group resumes at its committed offset
\* (auto.offset.reset = earliest when it has none)
CreateConsumerOk ==
    /\ pc = "create_consumer"
    /\ consumer' = "open"
    /\ position' = committed
    /\ stored_offset' = committed
    /\ pc' = "poll"
    /\ diag' = <<<<"INFO", "create_kafka_consumer">>, <<"INFO", "consume_logs">>>>
    /\ UNCHANGED <<run, topic, committed, conn, table_exists, table, txn,
                   next_id, msg, log_message, log_data, exc, exit_code,
                   polled, events, parseVars>>

\* Consumer(...) raises (no consumer exists) or subscribe raises (it does)
CreateConsumerFails ==
    /\ pc = "create_consumer"
    /\ consumer' \in {"none", "open"}
    /\ AbortStartup("ConsumerError")
    /\ diag' = <<<<"ERROR", "create_kafka_consumer">>>>
    /\ UNCHANGED <<run, topic, position, stored_offset, committed, conn,
                   table_exists, table, txn, next_id, msg, log_message,
                   log_data, polled, events, parseVars>>

\* mutant: the exception leaves the process without the finally block
RaiseInLoop_NoFinally(e) ==
    /\ exc' = e
    /\ pc' = "exited"

\* except Exception (lines 194-196): log, re-raise, run the finally block
RaiseInLoop(e) ==
    /\ exc' = e
    /\ pc' = "close_consumer"

\* poll times out: msg is None, continue
PollNone ==
    /\ pc = "poll"
    /\ msg' = None
    /\ polled' = "none"
    /\ pc' = "poll"
    /\ diag' = <<>>
    /\ UNCHANGED <<run, topic, position, stored_offset, committed, conn,
                   consumer, table_exists, table, txn, next_id, log_message,
                   log_data, exc, exit_code, events, parseVars>>

\* mutant: every event with an error raises, _PARTITION_EOF included
PollPartitionEOF_Fatal ==
    /\ pc = "poll"
    /\ position = Len(topic)
    /\ msg' = [offset |-> position, error |-> "_PARTITION_EOF"]
    /\ polled' = "eof"
    /\ RaiseInLoop("KafkaException")
    /\ diag' = <<<<"ERROR", "consume_logs">>, <<"ERROR", "consume_logs">>>>
    /\ UNCHANGED <<run, topic, position, stored_offset, committed, conn,
                   consumer, table_exists, table, txn, next_id, log_message,
                   log_data, exit_code, events, parseVars>>

\* poll returns an event whose error is _PARTITION_EOF
PollPartitionEOF ==
    /\ pc = "poll"
    /\ position = Len(topic)
    /\ msg' = [offset |-> position, error |-> "_PARTITION_EOF"]
    /\ polled' = "eof"
    /\ pc' = "poll"
    /\ diag' = <<<<"ERROR", "consume_logs">>, <<"INFO", "consume_logs">>>>
    /\ UNCHANGED <<run, topic, position, stored_offset, committed, conn,
                   consumer, table_exists, table, txn, next_id, log_message,
                   log_data, exc, exit_code, events, parseVars>>

\* poll returns an event with any other error: raise KafkaException
PollError ==
    /\ pc = "poll"
    /\ msg' = [offset |-> position, error |-> "OTHER"]
    /\ polled' = "error"
    /\ RaiseInLoop("KafkaException")
    /\ events' = Append(events, Event("stream_error", position))
    /\ diag' = <<<<"ERROR", "consume_logs">>, <<"ERROR", "consume_logs">>>>
    /\ UNCHANGED <<run, topic, position, stored_offset, committed, conn,
                   consumer, table_exists, table, txn, next_id, log_message,
                   log_data, exit_code, parseVars>>

\* the offset the client stores when it hands message o to the application
\* (enable.auto.offset.store is left at its default)
OffsetStoredOnDelivery(o) == o + 1

\* poll returns the next message of the topic
PollMessage ==
    /\ pc = "poll"
    /\ position < Len(topic)
    /\ msg' = [offset |-> position, error |-> None,
               payload |-> topic[position + 1]]
    /\ position' = position + 1
    /\ stored_offset' = OffsetStoredOnDelivery(position)
    /\ polled' = "message"
    /\ pc' = "decode"
    /\ events' = Append(events, Event("received", position))
    /\ diag' = <<>>
    /\ UNCHANGED <<run, topic, committed, conn, consumer, table_exists, table,
                   txn, next_id, log_message, log_data, exc, exit_code,
                   parseVars>>

\* msg.value().decode("utf-8")
DecodeOk ==
    /\ pc = "decode"
    /\ Payload(msg.payload).kind = "text"
    /\ log_message' = Payload(msg.payload).value
    /\ pc' = "parse"
    /\ diag' = <<>>
    /\ UNCHANGED <<run, topic, position, stored_offset, committed, conn,
                   consumer, table_exists, table, txn, next_id, msg, log_data,
                   exc, exit_code, polled, events, parseVars>>

\* value() is None (AttributeError) or not UTF-8 (UnicodeDecodeError)
DecodeFails ==
    /\ pc = "decode"
    /\ Payload(msg.payload).kind # "text"
    /\ RaiseInLoop(IF Payload(msg.payload).kind = "null" THEN "AttributeError"
                   ELSE "UnicodeDecodeError")
    /\ events' = Append(events, Event("decode_failed", msg.offset))
    /\ diag' = <<<<"ERROR", "consume_logs">>>>
    /\ UNCHANGED <<run, topic, position, stored_offset, committed, conn,
                   consumer, table_exists, table, txn, next_id, msg,
                   log_message, log_data, exit_code, polled, parseVars>>

\* mutant: the test of line 190 is dropped
AfterParse_AlwaysInsert(data) == "execute"
\* mutant: the test of line 190 is inverted
AfterParse_Inverted(data) == IF data = None THEN "execute" ELSE "poll"

\* where the loop goes after parse_log returned data (if log_data:)
AfterParse(data) == IF data # None THEN "execute" ELSE "poll"

\* log_data = parse_log(log_message); if log_data: insert_log(conn, log_data)
ParseMessage ==
    /\ pc = "parse"
    /\ log_data' = parse_log(log_message)
    /\ pc' = AfterParse(log_data')
    /\ events' = events
                 \o <<Event("parse", msg.offset),
                      Event(IF log_data' = None THEN "rejected" ELSE "parsed",
                            msg.offset),
                      Event(IF pc' = "execute" THEN "insert" ELSE "skipped",
                            msg.offset)>>
    /\ parse_table' = (msg.payload :> log_data') @@ parse_table
    /\ diag' = IF log_data' = None THEN <<<<"WARNING", "parse_log">>>> ELSE <<>>
    /\ UNCHANGED <<run, topic, position, stored_offset, committed, conn,
                   consumer, table_exists, table, txn, next_id, msg,
                   log_message, exc, exit_code, polled, input, line, result,
                   called>>

\* the row INSERT INTO logs adds (off and run record where it came from)
NewRow == [id |-> next_id, data |-> log_data, off |-> msg.offset, run |-> run]

\* mutant: the loop polls again without waiting for the commit
InsertExecuteOk_Async ==
    /\ pc = "execute"
    /\ txn' = Append(txn, NewRow)
    /\ next_id' = next_id + 1
    /\ pc' = "poll"
    /\ diag' = <<>>
    /\ UNCHANGED <<run, topic, position, stored_offset, committed, conn,
                   consumer, table_exists, table, msg, log_message, log_data,
                   exc, exit_code, polled, events, parseVars>>

\* cursor.execute(INSERT ...) succeeds: the row is in the open transaction
InsertExecuteOk ==
    /\ pc = "execute"
    /\ txn' = Append(txn, NewRow)
    /\ next_id' = next_id + 1
    /\ pc' = "commit"
    /\ diag' = <<>>
    /\ UNCHANGED <<run, topic, position, stored_offset, committed, conn,
                   consumer, table_exists, table, msg, log_message, log_data,
                   exc, exit_code, polled, events, parseVars>>

\* mutant: insert_log logs the failure and does not re-raise
InsertExecuteFails_Swallowed ==
    /\ pc = "execute"
    /\ pc' = "poll"
    /\ events' = Append(events, Event("insert_failed", msg.offset))
    /\ diag' = <<<<"ERROR", "insert_log">>>>
    /\ UNCHANGED <<run, topic, position, stored_offset, committed, conn,
                   consumer, table_exists, table, txn, next_id, msg,
                   log_message, log_data, exc, exit_code, polled, parseVars>>

\* cursor.execute raises: insert_log logs and re-raises
InsertExecuteFails ==
    /\ pc = "execute"
    /\ RaiseInLoop("StoreError")
    /\ events' = Append(events, Event("insert_failed", msg.offset))
    /\ diag' = <<<<"ERROR", "insert_log">>, <<"ERROR", "consume_logs">>>>
    /\ UNCHANGED <<run, topic, position, stored_offset, committed, conn,
                   consumer, table_exists, table, txn, next_id, msg,
                   log_message, log_data, exit_code, polled, parseVars>>

\* mutant: logs has a unique key on log_id and the insert overwrites
InsertCommitOk_Upsert ==
    /\ pc = "commit"
    /\ table' = SelectSeq(table, LAMBDA r : \A k \in 1..Len(txn) :
                                       r.data[2] # txn[k].data[2]) \o txn
    /\ txn' = <<>>
    /\ pc' = "poll"
    /\ events' = Append(events, Event("committed", msg.offset))
    /\ diag' = <<<<"INFO", "insert_log">>>>
    /\ UNCHANGED <<run, topic, position, stored_offset, committed, conn,
                   consumer, table_exists, next_id, msg, log_message, log_data,
                   exc, exit_code, polled, parseVars>>

\* conn.commit() succeeds: the row is stored
InsertCommitOk ==
    /\ pc = "commit"
    /\ table' = table \o txn
    /\ txn' = <<>>
    /\ pc' = "poll"
    /\ events' = Append(events, Event("committed", msg.offset))
    /\ diag' = <<<<"INFO", "insert_log">>>>
    /\ UNCHANGED <<run, topic, position, stored_offset, committed, conn,
                   consumer, table_exists, next_id, msg, log_message, log_data,
                   exc, exit_code, polled, parseVars>>

\* conn.commit() raises: the row is not stored
InsertCommitFails ==
    /\ pc = "commit"
    /\ RaiseInLoop("StoreError")
    /\ events' = Append(events, Event("insert_failed", msg.offset))
    /\ diag' = <<<<"ERROR", "insert_log">>, <<"ERROR", "consume_logs">>>>
    /\ UNCHANGED <<run, topic, position, stored_offset, committed, conn,
                   consumer, table_exists, table, txn, next_id, msg,
                   log_message, log_data, exit_code, polled, parseVars>>

\* where in the try block a KeyboardInterrupt can be raised
InterruptiblePcs == TryPcs

\* SIGINT: KeyboardInterrupt is raised at the current statement; no handler
\* of insert_log catches it (except Exception), line 192 does
Interrupt ==
    /\ pc \in InterruptiblePcs
    /\ exc' = "KeyboardInterrupt"
    /\ pc' = "close_consumer"
    /\ events' = Append(events, Event("interrupt", pc))
    /\ diag' = <<<<"INFO", "consume_logs">>>>
    /\ UNCHANGED <<run, topic, position, stored_offset, committed, conn,
                   consumer, table_exists, table, txn, next_id, msg,
                   log_message, log_data, exit_code, polled, parseVars>>

\* offset an offset commit writes for the group (enable.auto.commit is left
\* at its default, true: the stored offset is committed)
AutoCommitOffset == stored_offset

\* the client's background commit, every auto.commit.interval.ms
AutoCommit ==
    /\ consumer = "open"
    /\ pc \in TryPcs
    /\ committed # AutoCommitOffset
    /\ committed' = AutoCommitOffset
    /\ UNCHANGED <<pc, run, topic, position, stored_offset, conn, consumer,
                   table_exists, table, txn, next_id, msg, log_message,
                   log_data, exc, exit_code, diag, polled, events, parseVars>>

\* finally: consumer.close() commits the stored offset and leaves the group
CloseConsumer ==
    /\ pc = "close_consumer"
    /\ consumer' = "closed"
    /\ committed' = AutoCommitOffset
    /\ pc' = "close_conn"
    /\ diag' = <<>>
    /\ UNCHANGED <<run, topic, position, stored_offset, conn, table_exists,
                   table, txn, next_id, msg, log_message, log_data, exc,
                   exit_code, polled, events, parseVars>>

\* mutant: the handler of line 194 does not re-raise
ExitStatus_AlwaysZero(e) == 0

\* exit status: KeyboardInterrupt was handled, any other exception propagates
ExitStatus(e) == IF e = "KeyboardInterrupt" THEN 0 ELSE 1

\* finally: conn.close() discards the open transaction; the process exits
CloseConn ==
    /\ pc = "close_conn"
    /\ conn' = "closed"
    /\ txn' = <<>>
    /\ pc' = "exited"
    /\ exit_code' = ExitStatus(exc)
    /\ diag' = <<<<"INFO", "consume_logs">>>>
    /\ UNCHANGED <<run, topic, position, stored_offset, committed, consumer,
                   table_exists, table, next_id, msg, log_message, log_data,
                   exc, polled, events, parseVars>>

\* the operator starts the process again: the topic, the group's committed
\* offset and the table outlive the process
Restart ==
    /\ pc = "exited"
    /\ run < MaxRuns
    /\ run' = run + 1
    /\ pc' = "connect"
    /\ conn' = "none" /\ consumer' = "none"
    /\ position' = 0 /\ stored_offset' = 0
    /\ txn' = <<>>
    /\ msg' = None /\ log_message' = None /\ log_data' = None
    /\ exc' = "none" /\ exit_code' = None /\ diag' = <<>>
    /\ polled' = "-" /\ events' = <<>>
    /\ UNCHANGED <<topic, committed, table_exists, table, next_id, parseVars>>

Next ==
    \/ ConnectOk \/ ConnectFails
    \/ CreateTableOk \/ CreateTableFails
    \/ CreateConsumerOk \/ CreateConsumerFails
    \/ PollNone \/ PollPartitionEOF \/ PollError \/ PollMessage
    \/ DecodeOk \/ DecodeFails
    \/ ParseMessage
    \/ InsertExecuteOk \/ InsertExecuteFails
    \/ InsertCommitOk \/ InsertCommitFails
    \/ Interrupt
    \/ AutoCommit
    \/ CloseConsumer \/ CloseConn
    \/ Restart

Spec == Init /\ [][Next]_vars

TypeOK ==
    /\ pc \in {"idle", "connect", "create_table", "create_consumer", "exited",
               "close_consumer", "close_conn"} \cup TryPcs
    /\ position \in 0..Len(topic) /\ committed \in 0..Len(topic)
    /\ conn \in {"none", "open", "closed"}
    /\ consumer \in {"none", "open", "closed"}
    /\ Len(txn) <= 1

(***************************************************************************)
(* Properties of the ingestion process                                     *)
(***************************************************************************)
\* parse_log has accepted / rejected the message at offset o
Parses(o) ==
    topic[o + 1] \in DOMAIN parse_table /\ parse_table[topic[o + 1]] # None
Rejected(o) ==
    topic[o + 1] \in DOMAIN parse_table /\ parse_table[topic[o + 1]] = None

EventsOf(kind) == SelectSeq(events, LAMBDA e : e[1] = kind)
OffsetsOf(kind) == [k \in 1..Len(EventsOf(kind)) |-> EventsOf(kind)[k][2]]
Happened(kind, o) == \E k \in 1..Len(events) : events[k] = Event(kind, o)
ShutdownPcs == {"close_consumer", "close_conn", "exited"}
\* the run got into the loop and the loop has ended
LoopEnded == pc \in ShutdownPcs /\ exc \notin StartupErrors
HasRow(o) == \E k \in 1..Len(table) : table[k].off = o
RunRows == SelectSeq(table, LAMBDA r : r.run = run)

\* C1: once insert_log has raised for a record, the run performs no further
\* poll, parse or insert and does not retry the insert: the failure is the
\* last thing that happened to a message, the failed message has no row of
\* this run, and the only steps that follow close the consumer and then the
\* connection.
C1_FailFastOnStoreError ==
    /\ [](HasEvent("insert_failed") =>
            /\ pc \in ShutdownPcs
            /\ exc = "StoreError"
            /\ events[Len(events)][1] = "insert_failed"
            /\ \A k \in 1..Len(RunRows) :
                  RunRows[k].off # events[Len(events)][2])
    /\ [][(HasEvent("insert_failed") /\ pc # "exited") =>
            /\ \/ pc = "close_consumer" /\ pc' = "close_conn"
                    /\ consumer' = "closed" /\ conn' = conn
               \/ pc = "close_conn" /\ pc' = "exited" /\ conn' = "closed"
            /\ position' = position /\ table' = table /\ events' = events
            /\ polled' = polled /\ log_data' = log_data]_vars

C1_Witness ==
    /\ pc = "exited" /\ HasEvent("insert_failed")
    /\ consumer = "closed" /\ conn = "closed"

\* C2: when a run has ended, the offset committed for the consumer group is
\* not past any message that parses and has no stored row (so that a restart
\* delivers it again): no parsed message is lost.
C2_NoLoss ==
    (pc = "exited" /\ exc \notin StartupErrors) =>
        \A o \in 0..(committed - 1) : Parses(o) => HasRow(o)

\* C3: a message whose line parse_log rejects is parsed once, never inserted,
\* leaves the loop running with the poll as its next step, and is not
\* received again in that run.
C3_ParseFailureLocal ==
    \A k \in 1..Len(events) :
        (events[k][1] = "parse" /\ Rejected(events[k][2])) =>
            LET o == events[k][2] IN
            /\ ~Happened("insert", o)
            /\ \A j \in 1..Len(RunRows) : RunRows[j].off # o
            /\ \A j \in 1..Len(events) :
                  (j # k => events[j] # Event("parse", o))
                  /\ (j > k => events[j] # Event("received", o))
            /\ events[k + 1] = Event("rejected", o)
            /\ events[k + 2] = Event("skipped", o)
            /\ (k + 2 = Len(events)) => (pc = "poll" /\ exc = "none")
            /\ (k + 3 <= Len(events)) =>
                  events[k + 3][1] \in {"received", "stream_error", "interrupt"}
            /\ (k + 3 <= Len(events) /\ events[k + 3][1] = "interrupt") =>
                  events[k + 3][2] = "poll"

C3_Witness ==
    /\ Len(events) >= 5
    /\ events[2][1] = "parse" /\ Rejected(events[2][2])
    /\ events[5][1] = "received" /\ events[5][2] = events[2][2] + 1

\* C4: an interrupt never leaves a row executed but not committed: when
\* KeyboardInterrupt ends the loop, the open transaction holds no row.
C4_InterruptNotMidInsert ==
    exc = "KeyboardInterrupt" => txn = <<>>

\* C5: whenever the loop has been left (interrupt, stream error, persistence
\* failure) the consumer is closed first and the connection second, and both
\* are closed when the process has exited.
C5_ShutdownReleasesBoth ==
    /\ (pc = "exited" /\ exc \notin StartupErrors) =>
            consumer = "closed" /\ conn = "closed"
    /\ (LoopEnded /\ conn = "closed") => consumer = "closed"
    /\ (exc \notin StartupErrors /\ exc # "none") => pc \in ShutdownPcs

C5_Witness ==
    /\ pc = "exited" /\ HasEvent("stream_error")
    /\ consumer = "closed" /\ conn = "closed"

\* C6: a process whose loop ended exits with status 0 exactly when the loop
\* was ended by an interrupt, and with a non-zero status when it was ended by
\* a fatal stream error or a persistence failure.
C6_ExitStatusReflectsCause ==
    (pc = "exited" /\ exc \notin StartupErrors) =>
        /\ exit_code = 0 <=> HasEvent("interrupt")
        /\ (HasEvent("stream_error") \/ HasEvent("insert_failed")) =>
              exit_code # 0

C6_Witness ==
    pc = "exited" /\ exit_code = 0 /\ HasEvent("interrupt") /\ Len(table) > 0

\* a received message is settled once its row is committed or it is discarded
Settled(o) == Happened("committed", o) \/ Happened("skipped", o)

\* C7: the rows appended by the run are, in order, the records of the parsed
\* messages among the settled messages, which are a prefix of the messages
\* received so far (all of them but possibly the last); one row per message.
C7_OrderPreserving ==
    LET recvd == OffsetsOf("received")
        settled == SelectSeq(recvd, Settled)
        expected == SelectSeq(settled, Parses)
    IN /\ \A k \in 1..Len(recvd) : k < Len(recvd) => Settled(recvd[k])
       /\ \A k \in 1..Len(recvd) : k > 1 => recvd[k] = recvd[k - 1] + 1
       /\ Len(RunRows) = Len(expected)
       /\ \A k \in 1..Len(RunRows) :
            /\ RunRows[k].off = expected[k]
            /\ RunRows[k].data = parse_table[topic[expected[k] + 1]]

C7_Witness ==
    /\ Len(RunRows) = 2
    /\ RunRows[1].data # RunRows[2].data
    /\ RunRows[1].off < RunRows[2].off

\* C8: whenever the process exits with a non-zero status, every resource it
\* had acquired is closed, also when startup fails after the connection was
\* opened.
C8_FatalExitAfterCleanup ==
    (pc = "exited" /\ exit_code # 0) => (conn # "open" /\ consumer # "open")

FieldIndex(f) == CHOOSE i \in 1..18 : FieldNames[i] = f

\* the line is built by the grammar with exactly field f empty
OnlyEmpty(f) == input.dev = NoDeviation /\ input.empty = {f}

Injected(variant) == [i \in 1..18 |-> Str(FullValue(FieldNames[i], variant))]

\* the line is built by the grammar with all 18 fields non-empty
AllPopulated == input.dev = NoDeviation /\ input.empty = {}

C10_DeviationRejected ==
    (called /\ input.dev # NoDeviation) => result = None

\* log_id of a stored row (second column of the record)
LogIdOf(r) == r.data[2]
RowIds == {table[k].id : k \in 1..Len(table)}

\* C12: insert_log never overwrites or rejects on the basis of log_id: the
\* table changes only by a successful insert, which appends exactly one row
\* with an id no stored row has and leaves the stored rows as they are, also
\* when a stored row has the same log_id; so the run has as many rows as it
\* has successful inserts, and an insert is possible whatever the table holds.
C12_AppendOnly ==
    /\ [](/\ \A j, k \in 1..Len(table) : j # k => table[j].id # table[k].id
          /\ Len(RunRows) = Len(EventsOf("committed"))
          /\ pc = "execute" => ENABLED InsertExecuteOk
          /\ pc = "commit" => ENABLED InsertCommitOk)
    /\ [][table' # table =>
            /\ pc = "commit" /\ pc' = "poll"
            /\ Len(table') = Len(table) + 1
            /\ SubSeq(table', 1, Len(table)) = table
            /\ table'[Len(table')].id \notin RowIds
            /\ table'[Len(table')].data = log_data]_vars

C12_Witness ==
    /\ Len(table) = 2
    /\ LogIdOf(table[1]) = LogIdOf(table[2])
    /\ table[1].id # table[2].id

\* C13: create_log_table called when logs already exists (on a restart)
\* can succeed, and when it returns there is still the one table logs with
\* the rows and the id sequence it had; no error is raised by the call.
C13_SchemaIdempotent ==
    /\ []((pc = "create_table" /\ table_exists) => ENABLED CreateTableOk)
    /\ [][(pc = "create_table" /\ table_exists /\ pc' # "exited") =>
            /\ pc' = "create_consumer"
            /\ table_exists' /\ table' = table /\ next_id' = next_id
            /\ txn' = <<>> /\ exc' = "none" /\ exit_code' = None]_vars

C13_Witness ==
    pc = "create_consumer" /\ run = 2 /\ table_exists /\ Len(table) >= 1

\* C14: when create_postgres_connection or create_log_table raises, the
\* process exits without entering the loop: no consumer is created or
\* subscribed, nothing is polled and nothing is inserted in that run.
C14_StartupFailureAborts ==
    exc \in {"ConnectError", "SchemaError"} =>
        /\ pc = "exited" /\ exit_code = 1
        /\ consumer = "none"
        /\ polled = "-" /\ events = <<>> /\ msg = None
        /\ RunRows = <<>> /\ txn = <<>>
        /\ (exc = "ConnectError" => conn = "none")

C14_Witness ==
    /\ exc = "SchemaError" /\ pc = "exited" /\ consumer = "none"
    /\ run = 2 /\ Len(table) >= 1

\* the step is a poll that returned (msg or the poll outcome changes)
PollReturns == pc = "poll" /\ <<msg, polled>>' # <<msg, polled>>

\* C15: a poll that returns no message or the end-of-partition event leaves
\* the loop running, with nothing parsed, inserted or closed, and the next
\* step is a poll; a poll that returns any other error ends the loop, and
\* nothing is polled or inserted after it.
C15_PollOutcomes ==
    /\ []((polled \in {"none", "eof"} /\ exc = "none") =>
            pc = "poll" /\ consumer = "open" /\ conn = "open")
    /\ [][(PollReturns /\ polled' \in {"none", "eof"}) =>
            /\ pc' = "poll" /\ exc' = "none"
            /\ consumer' = "open" /\ conn' = "open"
            /\ events' = events /\ table' = table /\ txn' = txn
            /\ log_data' = log_data /\ position' = position]_vars
    /\ [](polled = "error" =>
            /\ pc \in ShutdownPcs /\ exc = "KafkaException"
            /\ events[Len(events)][1] = "stream_error")
    /\ [][(polled = "error" /\ pc # "exited") =>
            /\ polled' = "error" /\ events' = events
            /\ position' = position /\ table' = table /\ txn' = txn]_vars

C15_Witness ==
    /\ polled = "eof" /\ pc = "poll" /\ exc = "none"
    /\ position = Len(topic) /\ Len(RunRows) >= 1

\* offsets the run has received and not settled
Unsettled == {o \in 0..(Len(topic) - 1) : Happened("received", o) /\ ~Settled(o)}

\* C16: at most one received message is unsettled at any time, and the loop
\* is at its poll only when every received message is settled.
C16_OneInFlight ==
    /\ Cardinality(Unsettled) <= 1
    /\ (pc = "poll" /\ exc = "none") => Unsettled = {}
    /\ Cardinality(Unsettled) = 1 =>
          /\ msg # None /\ Unsettled = {msg.offset}
          /\ position = msg.offset + 1

C16_Witness ==
    /\ pc = "commit" /\ Cardinality(Unsettled) = 1
    /\ Len(RunRows) = 1 /\ msg.offset = 1

\* diagnostics of the last step that function fn emitted
DiagBy(fn) == SelectSeq(diag, LAMBDA e : e[2] = fn)
DiagLevels == {diag[k][1] : k \in 1..Len(diag)}

\* C17: parse_log emits no diagnostic itself: after it has returned, also
\* for a rejected line, no diagnostic comes from parse_log.
C17_ParserSilent ==
    called => DiagBy("parse_log") = <<>>

\* C18: the poll that returns the end-of-partition event emits no diagnostic
\* of error severity.
C18_EofNotError ==
    (polled = "eof" /\ pc = "poll" /\ exc = "none") => "ERROR" \notin DiagLevels

\* C19: the loop is left only through an interrupt, a stream error other than
\* end of partition, or a failed insert; never because of a payload alone.
C19_PayloadNeverFatal ==
    LoopEnded =>
        \/ HasEvent("interrupt")
        \/ HasEvent("stream_error")
        \/ HasEvent("insert_failed")

(***************************************************************************)
(* The loop without interrupt, fatal stream error and insert failure, its  *)
(* steps taken under weak fairness: a started statement of the sequential  *)
(* program completes.                                                      *)
(***************************************************************************)
FairNext ==
    \/ ConnectOk
    \/ CreateTableOk
    \/ CreateConsumerOk
    \/ PollNone \/ PollPartitionEOF \/ PollMessage
    \/ DecodeOk \/ DecodeFails
    \/ ParseMessage
    \/ InsertExecuteOk
    \/ InsertCommitOk
    \/ AutoCommit
    \/ CloseConsumer \/ CloseConn

FairSpec ==
    /\ Init
    /\ [][FairNext]_vars
    /\ WF_vars(ConnectOk) /\ WF_vars(CreateTableOk) /\ WF_vars(CreateConsumerOk)
    /\ WF_vars(PollMessage)
    /\ WF_vars(DecodeOk \/ DecodeFails)
    /\ WF_vars(ParseMessage)
    /\ WF_vars(InsertExecuteOk) /\ WF_vars(InsertCommitOk)
    /\ WF_vars(CloseConsumer) /\ WF_vars(CloseConn)

\* message o is settled as the claim says: committed if it parses, discarded
\* if it does not
SettledAsParsed(o) ==
    \/ Parses(o) /\ Happened("committed", o) /\ HasRow(o)
    \/ Rejected(o) /\ Happened("skipped", o)

\* C20: without interrupt, fatal stream error and insert failure, every
\* message the stream delivers is eventually settled (its row committed if it
\* parses, the message discarded if it does not) and the loop never ends.
C20_Progress ==
    /\ \A o \in 0..(MaxMsgs - 1) :
          Happened("received", o) ~> SettledAsParsed(o)
    /\ [](pc \notin ShutdownPcs)

====
